---- MODULE Spec2Model ----
(***************************************************************************)
(* Model of the stock/price synchronisation of seller.py (Ozon) and        *)
(* market.py (Yandex Market).                                              *)
(*                                                                         *)
(* Python strings are sequences of one-character strings.  A Python value  *)
(* read from the supplier spreadsheet is a record [t, s, n]: t = "str"     *)
(* with the characters in s, or t = "int" with the number in n.            *)
(***************************************************************************)
EXTENDS Integers, Sequences, FiniteSets, TLC

\* ------------------------------------------------------------------ bounds

\* Longest supplier feed (rows of watch_remnants) that is enumerated.
MaxFeed == 2
\* Longest offer list returned by a marketplace that is enumerated.
MaxOffers == 2
\* Longest price string enumerated character by character.
MaxPriceLen == 3
\* Most calls of one reconciliation function on the same caller variables.
MaxCalls == 2
\* Batch sizes, scaled down so that the enumerated lists span several batches.
\* The program's sizes are 100 (seller.py:415), 900 (seller.py:418),
\* 2000 (market.py:364, 371) and 500 (market.py:300); upload_prices of
\* seller.py cuts at 1000 (seller.py:360), which is more than main's 900.
SellerStockChunk == 1
SellerPriceChunk == 1
SellerUploadPriceChunk == 2
MarketStockChunk == 1
MarketPriceChunk == 1
\* Longest list and largest chunk size given to divide when it is called alone.
MaxListLen == 5
MaxChunk == 3

\* ------------------------------------------------------------ Python values

\* A str is a sequence of characters.  A character up to chr(127) is the
\* string that holds it; a character above chr(127) is named by its code
\* point, "U+00A0".
\*
\* A spreadsheet cell is a str, an int or a float.  The floats are the
\* multiples of one tenth, PyF(25) being 2.5, and NaN.
PyS(chars) == [t |-> "str", s |-> chars, n |-> 0]
PyI(k) == [t |-> "int", s |-> <<>>, n |-> k]
PyF(tenths) == [t |-> "float", s |-> <<>>, n |-> tenths]
PyNaN == [t |-> "float", s |-> <<"n", "a", "n">>, n |-> 0]

DigitChars == <<"0", "1", "2", "3", "4", "5", "6", "7", "8", "9">>

\* The characters 0-9, which are all that the pattern [^0-9] spares.
IsDigit(c) == \E d \in 1..10 : DigitChars[d] = c

DigitVal(c) == (CHOOSE d \in 1..10 : DigitChars[d] = c) - 1

\* The vertical tab, chr(11): it has no escape, so the literal holds the
\* character itself.
VerticalTab == ""

\* The characters above chr(127) that int() takes for whitespace.
UnicodeSpaces ==
    {"U+0085", "U+00A0", "U+1680", "U+2000", "U+2001", "U+2002", "U+2003",
     "U+2004", "U+2005", "U+2006", "U+2007", "U+2008", "U+2009", "U+200A",
     "U+2028", "U+2029", "U+202F", "U+205F", "U+3000"}

\* The characters above chr(127) that int() takes for a decimal digit (the
\* decimal digits of Unicode 14.0), by value: UnicodeDecimals[d + 1] are
\* those of value d.
UnicodeDecimals ==
    <<{"U+0660", "U+06F0", "U+07C0", "U+0966", "U+09E6", "U+0A66", "U+0AE6",
       "U+0B66", "U+0BE6", "U+0C66", "U+0CE6", "U+0D66", "U+0DE6", "U+0E50",
       "U+0ED0", "U+0F20", "U+1040", "U+1090", "U+17E0", "U+1810", "U+1946",
       "U+19D0", "U+1A80", "U+1A90", "U+1B50", "U+1BB0", "U+1C40", "U+1C50",
       "U+A620", "U+A8D0", "U+A900", "U+A9D0", "U+A9F0", "U+AA50", "U+ABF0",
       "U+FF10", "U+104A0", "U+10D30", "U+11066", "U+110F0", "U+11136",
       "U+111D0", "U+112F0", "U+11450", "U+114D0", "U+11650", "U+116C0",
       "U+11730", "U+118E0", "U+11950", "U+11C50", "U+11D50", "U+11DA0",
       "U+16A60", "U+16AC0", "U+16B50", "U+1D7CE", "U+1D7D8", "U+1D7E2",
       "U+1D7EC", "U+1D7F6", "U+1E140", "U+1E2F0", "U+1E950", "U+1FBF0"},
      {"U+0661", "U+06F1", "U+07C1", "U+0967", "U+09E7", "U+0A67", "U+0AE7",
       "U+0B67", "U+0BE7", "U+0C67", "U+0CE7", "U+0D67", "U+0DE7", "U+0E51",
       "U+0ED1", "U+0F21", "U+1041", "U+1091", "U+17E1", "U+1811", "U+1947",
       "U+19D1", "U+1A81", "U+1A91", "U+1B51", "U+1BB1", "U+1C41", "U+1C51",
       "U+A621", "U+A8D1", "U+A901", "U+A9D1", "U+A9F1", "U+AA51", "U+ABF1",
       "U+FF11", "U+104A1", "U+10D31", "U+11067", "U+110F1", "U+11137",
       "U+111D1", "U+112F1", "U+11451", "U+114D1", "U+11651", "U+116C1",
       "U+11731", "U+118E1", "U+11951", "U+11C51", "U+11D51", "U+11DA1",
       "U+16A61", "U+16AC1", "U+16B51", "U+1D7CF", "U+1D7D9", "U+1D7E3",
       "U+1D7ED", "U+1D7F7", "U+1E141", "U+1E2F1", "U+1E951", "U+1FBF1"},
      {"U+0662", "U+06F2", "U+07C2", "U+0968", "U+09E8", "U+0A68", "U+0AE8",
       "U+0B68", "U+0BE8", "U+0C68", "U+0CE8", "U+0D68", "U+0DE8", "U+0E52",
       "U+0ED2", "U+0F22", "U+1042", "U+1092", "U+17E2", "U+1812", "U+1948",
       "U+19D2", "U+1A82", "U+1A92", "U+1B52", "U+1BB2", "U+1C42", "U+1C52",
       "U+A622", "U+A8D2", "U+A902", "U+A9D2", "U+A9F2", "U+AA52", "U+ABF2",
       "U+FF12", "U+104A2", "U+10D32", "U+11068", "U+110F2", "U+11138",
       "U+111D2", "U+112F2", "U+11452", "U+114D2", "U+11652", "U+116C2",
       "U+11732", "U+118E2", "U+11952", "U+11C52", "U+11D52", "U+11DA2",
       "U+16A62", "U+16AC2", "U+16B52", "U+1D7D0", "U+1D7DA", "U+1D7E4",
       "U+1D7EE", "U+1D7F8", "U+1E142", "U+1E2F2", "U+1E952", "U+1FBF2"},
      {"U+0663", "U+06F3", "U+07C3", "U+0969", "U+09E9", "U+0A69", "U+0AE9",
       "U+0B69", "U+0BE9", "U+0C69", "U+0CE9", "U+0D69", "U+0DE9", "U+0E53",
       "U+0ED3", "U+0F23", "U+1043", "U+1093", "U+17E3", "U+1813", "U+1949",
       "U+19D3", "U+1A83", "U+1A93", "U+1B53", "U+1BB3", "U+1C43", "U+1C53",
       "U+A623", "U+A8D3", "U+A903", "U+A9D3", "U+A9F3", "U+AA53", "U+ABF3",
       "U+FF13", "U+104A3", "U+10D33", "U+11069", "U+110F3", "U+11139",
       "U+111D3", "U+112F3", "U+11453", "U+114D3", "U+11653", "U+116C3",
       "U+11733", "U+118E3", "U+11953", "U+11C53", "U+11D53", "U+11DA3",
       "U+16A63", "U+16AC3", "U+16B53", "U+1D7D1", "U+1D7DB", "U+1D7E5",
       "U+1D7EF", "U+1D7F9", "U+1E143", "U+1E2F3", "U+1E953", "U+1FBF3"},
      {"U+0664", "U+06F4", "U+07C4", "U+096A", "U+09EA", "U+0A6A", "U+0AEA",
       "U+0B6A", "U+0BEA", "U+0C6A", "U+0CEA", "U+0D6A", "U+0DEA", "U+0E54",
       "U+0ED4", "U+0F24", "U+1044", "U+1094", "U+17E4", "U+1814", "U+194A",
       "U+19D4", "U+1A84", "U+1A94", "U+1B54", "U+1BB4", "U+1C44", "U+1C54",
       "U+A624", "U+A8D4", "U+A904", "U+A9D4", "U+A9F4", "U+AA54", "U+ABF4",
       "U+FF14", "U+104A4", "U+10D34", "U+1106A", "U+110F4", "U+1113A",
       "U+111D4", "U+112F4", "U+11454", "U+114D4", "U+11654", "U+116C4",
       "U+11734", "U+118E4", "U+11954", "U+11C54", "U+11D54", "U+11DA4",
       "U+16A64", "U+16AC4", "U+16B54", "U+1D7D2", "U+1D7DC", "U+1D7E6",
       "U+1D7F0", "U+1D7FA", "U+1E144", "U+1E2F4", "U+1E954", "U+1FBF4"},
      {"U+0665", "U+06F5", "U+07C5", "U+096B", "U+09EB", "U+0A6B", "U+0AEB",
       "U+0B6B", "U+0BEB", "U+0C6B", "U+0CEB", "U+0D6B", "U+0DEB", "U+0E55",
       "U+0ED5", "U+0F25", "U+1045", "U+1095", "U+17E5", "U+1815", "U+194B",
       "U+19D5", "U+1A85", "U+1A95", "U+1B55", "U+1BB5", "U+1C45", "U+1C55",
       "U+A625", "U+A8D5", "U+A905", "U+A9D5", "U+A9F5", "U+AA55", "U+ABF5",
       "U+FF15", "U+104A5", "U+10D35", "U+1106B", "U+110F5", "U+1113B",
       "U+111D5", "U+112F5", "U+11455", "U+114D5", "U+11655", "U+116C5",
       "U+11735", "U+118E5", "U+11955", "U+11C55", "U+11D55", "U+11DA5",
       "U+16A65", "U+16AC5", "U+16B55", "U+1D7D3", "U+1D7DD", "U+1D7E7",
       "U+1D7F1", "U+1D7FB", "U+1E145", "U+1E2F5", "U+1E955", "U+1FBF5"},
      {"U+0666", "U+06F6", "U+07C6", "U+096C", "U+09EC", "U+0A6C", "U+0AEC",
       "U+0B6C", "U+0BEC", "U+0C6C", "U+0CEC", "U+0D6C", "U+0DEC", "U+0E56",
       "U+0ED6", "U+0F26", "U+1046", "U+1096", "U+17E6", "U+1816", "U+194C",
       "U+19D6", "U+1A86", "U+1A96", "U+1B56", "U+1BB6", "U+1C46", "U+1C56",
       "U+A626", "U+A8D6", "U+A906", "U+A9D6", "U+A9F6", "U+AA56", "U+ABF6",
       "U+FF16", "U+104A6", "U+10D36", "U+1106C", "U+110F6", "U+1113C",
       "U+111D6", "U+112F6", "U+11456", "U+114D6", "U+11656", "U+116C6",
       "U+11736", "U+118E6", "U+11956", "U+11C56", "U+11D56", "U+11DA6",
       "U+16A66", "U+16AC6", "U+16B56", "U+1D7D4", "U+1D7DE", "U+1D7E8",
       "U+1D7F2", "U+1D7FC", "U+1E146", "U+1E2F6", "U+1E956", "U+1FBF6"},
      {"U+0667", "U+06F7", "U+07C7", "U+096D", "U+09ED", "U+0A6D", "U+0AED",
       "U+0B6D", "U+0BED", "U+0C6D", "U+0CED", "U+0D6D", "U+0DED", "U+0E57",
       "U+0ED7", "U+0F27", "U+1047", "U+1097", "U+17E7", "U+1817", "U+194D",
       "U+19D7", "U+1A87", "U+1A97", "U+1B57", "U+1BB7", "U+1C47", "U+1C57",
       "U+A627", "U+A8D7", "U+A907", "U+A9D7", "U+A9F7", "U+AA57", "U+ABF7",
       "U+FF17", "U+104A7", "U+10D37", "U+1106D", "U+110F7", "U+1113D",
       "U+111D7", "U+112F7", "U+11457", "U+114D7", "U+11657", "U+116C7",
       "U+11737", "U+118E7", "U+11957", "U+11C57", "U+11D57", "U+11DA7",
       "U+16A67", "U+16AC7", "U+16B57", "U+1D7D5", "U+1D7DF", "U+1D7E9",
       "U+1D7F3", "U+1D7FD", "U+1E147", "U+1E2F7", "U+1E957", "U+1FBF7"},
      {"U+0668", "U+06F8", "U+07C8", "U+096E", "U+09EE", "U+0A6E", "U+0AEE",
       "U+0B6E", "U+0BEE", "U+0C6E", "U+0CEE", "U+0D6E", "U+0DEE", "U+0E58",
       "U+0ED8", "U+0F28", "U+1048", "U+1098", "U+17E8", "U+1818", "U+194E",
       "U+19D8", "U+1A88", "U+1A98", "U+1B58", "U+1BB8", "U+1C48", "U+1C58",
       "U+A628", "U+A8D8", "U+A908", "U+A9D8", "U+A9F8", "U+AA58", "U+ABF8",
       "U+FF18", "U+104A8", "U+10D38", "U+1106E", "U+110F8", "U+1113E",
       "U+111D8", "U+112F8", "U+11458", "U+114D8", "U+11658", "U+116C8",
       "U+11738", "U+118E8", "U+11958", "U+11C58", "U+11D58", "U+11DA8",
       "U+16A68", "U+16AC8", "U+16B58", "U+1D7D6", "U+1D7E0", "U+1D7EA",
       "U+1D7F4", "U+1D7FE", "U+1E148", "U+1E2F8", "U+1E958", "U+1FBF8"},
      {"U+0669", "U+06F9", "U+07C9", "U+096F", "U+09EF", "U+0A6F", "U+0AEF",
       "U+0B6F", "U+0BEF", "U+0C6F", "U+0CEF", "U+0D6F", "U+0DEF", "U+0E59",
       "U+0ED9", "U+0F29", "U+1049", "U+1099", "U+17E9", "U+1819", "U+194F",
       "U+19D9", "U+1A89", "U+1A99", "U+1B59", "U+1BB9", "U+1C49", "U+1C59",
       "U+A629", "U+A8D9", "U+A909", "U+A9D9", "U+A9F9", "U+AA59", "U+ABF9",
       "U+FF19", "U+104A9", "U+10D39", "U+1106F", "U+110F9", "U+1113F",
       "U+111D9", "U+112F9", "U+11459", "U+114D9", "U+11659", "U+116C9",
       "U+11739", "U+118E9", "U+11959", "U+11C59", "U+11D59", "U+11DA9",
       "U+16A69", "U+16AC9", "U+16B59", "U+1D7D7", "U+1D7E1", "U+1D7EB",
       "U+1D7F5", "U+1D7FF", "U+1E149", "U+1E2F9", "U+1E959", "U+1FBF9"}>>

\* The characters int() strips from both ends of a string: space, tab, line
\* feed, vertical tab, form feed, carriage return and the Unicode spaces.
\* chr(28) to chr(31) are whitespace to str.isspace() but int() does not
\* strip them.
IsSpace(c) == c \in {" ", "\t", "\n", VerticalTab, "\f", "\r"} \cup UnicodeSpaces

\* The characters int() reads as a decimal digit, and their values.
IsDecimal(c) == IsDigit(c) \/ \E d \in 1..10 : c \in UnicodeDecimals[d]

DecimalVal(c) ==
    IF IsDigit(c) THEN DigitVal(c)
    ELSE (CHOOSE d \in 1..10 : c \in UnicodeDecimals[d]) - 1

RECURSIVE NatToStr(_)
NatToStr(k) ==
    IF k < 10 THEN <<DigitChars[k + 1]>>
    ELSE NatToStr(k \div 10) \o <<DigitChars[(k % 10) + 1]>>

\* abs(k)
Abs(k) == IF k < 0 THEN 0 - k ELSE k

\* str(v): a str is itself, an int is its decimal numeral, a float is "nan"
\* or its whole part, a "." and its tenths.
PyStr(v) ==
    IF v.t = "str" THEN v.s
    ELSE IF v.t = "float"
    THEN IF v.s # <<>> THEN v.s
         ELSE (IF v.n < 0 THEN <<"-">> ELSE <<>>)
                  \o NatToStr(Abs(v.n) \div 10)
                  \o <<".">>
                  \o NatToStr(Abs(v.n) % 10)
    ELSE IF v.n < 0 THEN <<"-">> \o NatToStr(0 - v.n)
    ELSE NatToStr(v.n)

RECURSIVE LStrip(_)
LStrip(s) == IF s # <<>> /\ IsSpace(Head(s)) THEN LStrip(Tail(s)) ELSE s

RECURSIVE RStrip(_)
RStrip(s) ==
    IF s # <<>> /\ IsSpace(s[Len(s)]) THEN RStrip(SubSeq(s, 1, Len(s) - 1)) ELSE s

\* The digits of an int() literal: digits, with single underscores allowed
\* between two digits only.
DigitsOk(s) ==
    /\ s # <<>>
    /\ \A i \in 1..Len(s) : IsDecimal(s[i]) \/ s[i] = "_"
    /\ IsDecimal(s[1])
    /\ IsDecimal(s[Len(s)])
    /\ \A i \in 1..(Len(s) - 1) : ~(s[i] = "_" /\ s[i + 1] = "_")

RECURSIVE DigitsValue(_, _)
DigitsValue(s, acc) ==
    IF s = <<>> THEN acc
    ELSE IF Head(s) = "_" THEN DigitsValue(Tail(s), acc)
    ELSE DigitsValue(Tail(s), 10 * acc + DecimalVal(Head(s)))

\* int(v): [raised, n].  An int is returned as it is; a float is cut to its
\* whole part (towards zero), NaN being a ValueError; a str is stripped of
\* surrounding whitespace, may carry one sign, and must then be a base-10
\* literal, otherwise ValueError.
PyInt(v) ==
    IF v.t = "int" THEN [raised |-> FALSE, n |-> v.n]
    ELSE IF v.t = "float"
    THEN IF v.s # <<>> THEN [raised |-> TRUE, n |-> 0]
         ELSE [raised |-> FALSE,
               n |-> IF v.n < 0 THEN 0 - (Abs(v.n) \div 10) ELSE v.n \div 10]
    ELSE LET body == RStrip(LStrip(v.s))
             signed == body # <<>> /\ Head(body) \in {"+", "-"}
             digits == IF signed THEN Tail(body) ELSE body
         IN  IF ~DigitsOk(digits) THEN [raised |-> TRUE, n |-> 0]
             ELSE [raised |-> FALSE,
                   n |-> IF signed /\ Head(body) = "-"
                         THEN 0 - DigitsValue(digits, 0)
                         ELSE DigitsValue(digits, 0)]

\* x in lst
Contains(lst, x) == \E i \in 1..Len(lst) : lst[i] = x

\* Remove as it would be were line 246 / 217 left out.
RemoveNothing(lst, x) == lst

\* lst.remove(x): the first occurrence goes.
Remove(lst, x) ==
    LET i == CHOOSE k \in 1..Len(lst) :
                 lst[k] = x /\ \A j \in 1..(k - 1) : lst[j] # x
    IN  SubSeq(lst, 1, i - 1) \o SubSeq(lst, i + 1, Len(lst))

\* --------------------------------------------------------- price_conversion

\* SplitDotFirst as it would be were the split taken at the last ".".
RECURSIVE SplitDotLast(_)
SplitDotLast(price) ==
    IF \A i \in 1..Len(price) : price[i] # "." THEN price
    ELSE IF price[Len(price)] = "." THEN SubSeq(price, 1, Len(price) - 1)
    ELSE SplitDotLast(SubSeq(price, 1, Len(price) - 1))

\* price.split(".")[0]: the characters before the first "." (all of them when
\* there is none).
RECURSIVE SplitDotFirst(_)
SplitDotFirst(price) ==
    IF price = <<>> THEN <<>>
    ELSE IF Head(price) = "." THEN <<>>
    ELSE <<Head(price)>> \o SplitDotFirst(Tail(price))

\* re.sub("[^0-9]", "", s)
RECURSIVE ReSubNonDigits(_)
ReSubNonDigits(s) ==
    IF s = <<>> THEN <<>>
    ELSE IF IsDigit(Head(s)) THEN <<Head(s)>> \o ReSubNonDigits(Tail(s))
    ELSE ReSubNonDigits(Tail(s))

price_conversion(price) == ReSubNonDigits(SplitDotFirst(price))

\* ---------------------------------------------------- quantity normalisation

\* normalize_count as it would be were a failed int() replaced by 0.
normalize_count_default(watch) ==
    LET count == PyStr(watch.Kolichestvo)
    IN  IF count = <<">", "1", "0">> THEN [raised |-> FALSE, stock |-> 100]
        ELSE IF count = <<"1">> THEN [raised |-> FALSE, stock |-> 0]
        ELSE LET r == PyInt(watch.Kolichestvo)
             IN  [raised |-> FALSE, stock |-> IF r.raised THEN 0 ELSE r.n]

\* The if/elif/else of create_stocks on a row: [raised, stock].
normalize_count(watch) ==
    LET count == PyStr(watch.Kolichestvo)
    IN  IF count = <<">", "1", "0">> THEN [raised |-> FALSE, stock |-> 100]
        ELSE IF count = <<"1">> THEN [raised |-> FALSE, stock |-> 0]
        ELSE LET r == PyInt(watch.Kolichestvo)
             IN  [raised |-> r.raised, stock |-> r.n]

\* ------------------------------------------------------------ create_stocks

\* seller.py create_stocks, the loop over watch_remnants (lines 236-246).
\* offer_ids is the caller's list: it is changed in place, and it is returned
\* here so that the caller's variable can follow it.
RECURSIVE seller_stocks_loop(_, _, _)
seller_stocks_loop(rows, offer_ids, stocks) ==
    IF rows = <<>>
    THEN [raised |-> FALSE, stocks |-> stocks, offer_ids |-> offer_ids]
    ELSE LET watch == Head(rows)
             code == PyStr(watch.Kod)
         IN  IF Contains(offer_ids, code)
             THEN LET q == normalize_count(watch)
                  IN  IF q.raised
                      THEN [raised |-> TRUE, stocks |-> stocks,
                            offer_ids |-> offer_ids]
                      ELSE seller_stocks_loop(
                               Tail(rows),
                               Remove(offer_ids, code),
                               Append(stocks, [offer_id |-> code, stock |-> q.stock]))
             ELSE seller_stocks_loop(Tail(rows), offer_ids, stocks)

\* seller_create_stocks as it would be were the unmatched offers put first.
seller_create_stocks_zeros_first(watch_remnants, offer_ids) ==
    LET r == seller_stocks_loop(watch_remnants, offer_ids, <<>>)
    IN  IF r.raised
        THEN [raised |-> TRUE, ret |-> <<>>, offer_ids |-> r.offer_ids]
        ELSE [raised |-> FALSE,
              ret |-> [i \in 1..Len(r.offer_ids) |->
                          [offer_id |-> r.offer_ids[i], stock |-> 0]] \o r.stocks,
              offer_ids |-> r.offer_ids]

\* seller.py create_stocks: [raised, ret, offer_ids], offer_ids being the
\* caller's list as the call leaves it.
seller_create_stocks(watch_remnants, offer_ids) ==
    LET r == seller_stocks_loop(watch_remnants, offer_ids, <<>>)
    IN  IF r.raised
        THEN [raised |-> TRUE, ret |-> <<>>, offer_ids |-> r.offer_ids]
        ELSE [raised |-> FALSE,
              ret |-> r.stocks \o
                      [i \in 1..Len(r.offer_ids) |->
                          [offer_id |-> r.offer_ids[i], stock |-> 0]],
              offer_ids |-> r.offer_ids]

\* One element of the "skus" payload of Yandex Market.
MarketStock(sku, warehouse_id, count, date) ==
    [sku |-> sku, warehouseId |-> warehouse_id,
     items |-> <<[count |-> count, type |-> "FIT", updatedAt |-> date]>>]

\* market.py create_stocks, the loop over watch_remnants (lines 195-217).
RECURSIVE market_stocks_loop(_, _, _, _, _)
market_stocks_loop(rows, offer_ids, stocks, warehouse_id, date) ==
    IF rows = <<>>
    THEN [raised |-> FALSE, stocks |-> stocks, offer_ids |-> offer_ids]
    ELSE LET watch == Head(rows)
             code == PyStr(watch.Kod)
         IN  IF Contains(offer_ids, code)
             THEN LET q == normalize_count(watch)
                  IN  IF q.raised
                      THEN [raised |-> TRUE, stocks |-> stocks,
                            offer_ids |-> offer_ids]
                      ELSE market_stocks_loop(
                               Tail(rows),
                               Remove(offer_ids, code),
                               Append(stocks,
                                      MarketStock(code, warehouse_id, q.stock, date)),
                               warehouse_id, date)
             ELSE market_stocks_loop(Tail(rows), offer_ids, stocks,
                                     warehouse_id, date)

\* market.py create_stocks; date is the clock reading of line 194.
market_create_stocks(watch_remnants, offer_ids, warehouse_id, date) ==
    LET r == market_stocks_loop(watch_remnants, offer_ids, <<>>, warehouse_id, date)
    IN  IF r.raised
        THEN [raised |-> TRUE, ret |-> <<>>, offer_ids |-> r.offer_ids]
        ELSE [raised |-> FALSE,
              ret |-> r.stocks \o
                      [i \in 1..Len(r.offer_ids) |->
                          MarketStock(r.offer_ids[i], warehouse_id, 0, date)],
              offer_ids |-> r.offer_ids]

\* ------------------------------------------------------------ create_prices

\* seller_create_prices as it would be were a matched offer dropped from the
\* list, as create_stocks does.
RECURSIVE seller_create_prices_once(_, _)
seller_create_prices_once(watch_remnants, offer_ids) ==
    IF watch_remnants = <<>> THEN <<>>
    ELSE LET watch == Head(watch_remnants)
         IN  IF Contains(offer_ids, PyStr(watch.Kod))
             THEN <<[auto_action_enabled |-> "UNKNOWN",
                     currency_code |-> "RUB",
                     offer_id |-> PyStr(watch.Kod),
                     old_price |-> <<"0">>,
                     price |-> price_conversion(watch.Tsena)]>>
                  \o seller_create_prices_once(Tail(watch_remnants),
                                               Remove(offer_ids, PyStr(watch.Kod)))
             ELSE seller_create_prices_once(Tail(watch_remnants), offer_ids)

\* seller.py create_prices: the list of price entries; offer_ids is only read.
RECURSIVE seller_create_prices(_, _)
seller_create_prices(watch_remnants, offer_ids) ==
    IF watch_remnants = <<>> THEN <<>>
    ELSE LET watch == Head(watch_remnants)
             rest == seller_create_prices(Tail(watch_remnants), offer_ids)
         IN  IF Contains(offer_ids, PyStr(watch.Kod))
             THEN <<[auto_action_enabled |-> "UNKNOWN",
                     currency_code |-> "RUB",
                     offer_id |-> PyStr(watch.Kod),
                     old_price |-> <<"0">>,
                     price |-> price_conversion(watch.Tsena)]>> \o rest
             ELSE rest

\* market.py create_prices, the loop: [raised, prices].  int() of the
\* normalised price raises ValueError when no digit is left.
RECURSIVE market_prices_loop(_, _, _)
market_prices_loop(rows, offer_ids, prices) ==
    IF rows = <<>> THEN [raised |-> FALSE, prices |-> prices]
    ELSE LET watch == Head(rows)
         IN  IF Contains(offer_ids, PyStr(watch.Kod))
             THEN LET v == PyInt(PyS(price_conversion(watch.Tsena)))
                  IN  IF v.raised THEN [raised |-> TRUE, prices |-> prices]
                      ELSE market_prices_loop(
                               Tail(rows), offer_ids,
                               Append(prices,
                                      [id |-> PyStr(watch.Kod),
                                       price |-> [value |-> v.n,
                                                  currencyId |-> "RUR"]]))
             ELSE market_prices_loop(Tail(rows), offer_ids, prices)

\* market.py create_prices: [raised, ret].
market_create_prices(watch_remnants, offer_ids) ==
    LET r == market_prices_loop(watch_remnants, offer_ids, <<>>)
    IN  [raised |-> r.raised, ret |-> IF r.raised THEN <<>> ELSE r.prices]

\* ------------------------------------------------------------------- state

VARIABLES
    watch_remnants,  \* the supplier feed: rows [Kod, Kolichestvo, Tsena]
    offer_ids,       \* the caller's offer list (a Python list, shared by reference)
    listed,          \* what the marketplace returned for offer_ids (history)
    calls,           \* calls made on the caller's variables: [fn, arg, raised, ret]
    price_in,        \* the argument drawn for price_conversion
    prog,            \* which main() is running: "seller", "market" or "none"
    pc,              \* position of main()
    campaign,        \* market.py: the campaign being synchronised
    stocks,          \* main()'s stocks
    prices,          \* main()'s prices
    todo,            \* batches of the running for loop not yet sent
    sent,            \* requests the marketplaces received: [kind, campaign, batch]
    coroutines,      \* coroutine objects created and never awaited
    reported         \* what the except clauses printed

dataVars == <<watch_remnants, offer_ids, listed>>
runVars == <<prog, pc, campaign, stocks, prices, todo, sent, coroutines, reported>>
vars == <<watch_remnants, offer_ids, listed, calls, price_in, prog, pc, campaign,
          stocks, prices, todo, sent, coroutines, reported>>

\* ------------------------------------------------------------------ inputs

AllSeqs(S, n) == UNION {[1..k -> S] : k \in 0..n}

\* Offer identifiers a marketplace knows; "B" is in no supplier feed.
OfferIds == {<<"A">>, <<"7">>, <<"B">>}

\* The lists given as offer_ids: the code takes any list of strings, one
\* that repeats an identifier included.
OfferLists == AllSeqs(OfferIds, MaxOffers)

\* The price of the docstrings, "5'990.00" followed by a space, the three
\* Cyrillic letters of the currency and a ".".
PriceExample ==
    <<"5", "'", "9", "9", "0", ".", "0", "0", " ", "U+0440", "U+0443", "U+0431", ".">>

\* A price cell with no digit before its first ".": the currency, then ".5".
PriceNoDigits == <<"U+0440", "U+0443", "U+0431", ".", "5">>

Row(code, count, price) == [Kod |-> code, Kolichestvo |-> count, Tsena |-> price]

\* Quantity cells that are text: a numeral between a no-break space and a
\* tab, and a signed numeral with an underscore, an Arabic-Indic digit and
\* spaces around it (" +1_2 " with the 2 written U+0662).
PaddedFive == PyS(<<"U+00A0", "5", "\t">>)
SignedTwelve == PyS(<<" ", "+", "1", "_", "U+0662", " ">>)

\* Rows of the feeds given to the reconciliation functions.  The codes are
\* text or number, as the spreadsheet reader yields them.  The quantity cells
\* are the two sentinels (one of them also as a number), numbers, floats (2.5
\* and NaN), numerals as text (negative, padded, signed) and text that is no
\* numeral; one price has no digit before its ".".
Rows == {Row(PyS(<<"A">>), PyI(7), PriceExample),
         Row(PyS(<<"A">>), PyS(<<">", "1", "0">>), PriceExample),
         Row(PyS(<<"A">>), PyS(<<"x">>), PriceExample),
         Row(PyS(<<"A">>), PyS(<<"-", "5">>), PriceExample),
         Row(PyS(<<"A">>), PyF(25), PriceExample),
         Row(PyS(<<"A">>), PaddedFive, PriceExample),
         Row(PyI(7), PyS(<<"1">>), PriceExample),
         Row(PyI(7), PyI(1), PriceExample),
         Row(PyI(7), PyI(7), PriceNoDigits),
         Row(PyI(7), PyNaN, PriceExample),
         Row(PyI(7), SignedTwelve, PriceExample)}

Feeds == AllSeqs(Rows, MaxFeed)

PriceChars == {"5", "0", "'", ".", "r"}

PriceInputs == AllSeqs(PriceChars, MaxPriceLen)
                   \cup {PriceExample, PriceNoDigits,
                         <<"1", "2", "3", "4", ".", "5", "0">>}

\* The clock reading and warehouse used where create_stocks is called alone.
SomeDate == "2023-01-01T00:00:00Z"
SomeWarehouse == "WH1"

IdleRun ==
    /\ prog = "none"
    /\ pc = "idle"
    /\ campaign = "none"
    /\ stocks = <<>>
    /\ prices = <<>>
    /\ todo = <<>>
    /\ sent = <<>>
    /\ coroutines = 0
    /\ reported = <<>>

\* ------------------------------------------- reconciliation called directly

InitRecon ==
    /\ watch_remnants \in Feeds
    /\ offer_ids \in OfferLists
    /\ listed = offer_ids
    /\ calls = <<>>
    /\ price_in = <<>>
    /\ IdleRun

\* The same function is called again on the same variables.
MayCall(fn) == Len(calls) < MaxCalls /\ (IF calls = <<>> THEN TRUE ELSE calls[1].fn = fn)

CallSellerCreateStocks ==
    /\ MayCall("seller.create_stocks")
    /\ LET r == seller_create_stocks(watch_remnants, offer_ids)
       IN  /\ calls' = Append(calls, [fn |-> "seller.create_stocks", arg |-> offer_ids,
                                      raised |-> r.raised, ret |-> r.ret])
           /\ offer_ids' = r.offer_ids
    /\ UNCHANGED <<watch_remnants, listed, price_in, runVars>>

CallMarketCreateStocks ==
    /\ MayCall("market.create_stocks")
    /\ LET r == market_create_stocks(watch_remnants, offer_ids, SomeWarehouse, SomeDate)
       IN  /\ calls' = Append(calls, [fn |-> "market.create_stocks", arg |-> offer_ids,
                                      raised |-> r.raised, ret |-> r.ret])
           /\ offer_ids' = r.offer_ids
    /\ UNCHANGED <<watch_remnants, listed, price_in, runVars>>

CallSellerCreatePrices ==
    /\ MayCall("seller.create_prices")
    /\ calls' = Append(calls, [fn |-> "seller.create_prices", arg |-> offer_ids,
                               raised |-> FALSE,
                               ret |-> seller_create_prices(watch_remnants, offer_ids)])
    /\ UNCHANGED <<dataVars, price_in, runVars>>

CallMarketCreatePrices ==
    /\ MayCall("market.create_prices")
    /\ LET r == market_create_prices(watch_remnants, offer_ids)
       IN  calls' = Append(calls, [fn |-> "market.create_prices", arg |-> offer_ids,
                                   raised |-> r.raised, ret |-> r.ret])
    /\ UNCHANGED <<dataVars, price_in, runVars>>

NextRecon ==
    \/ CallSellerCreateStocks
    \/ CallMarketCreateStocks
    \/ CallSellerCreatePrices
    \/ CallMarketCreatePrices

SpecRecon == InitRecon /\ [][NextRecon]_vars

\* ----------------------------------------- price_conversion called directly

InitPrice ==
    /\ price_in \in PriceInputs
    /\ watch_remnants = <<>>
    /\ offer_ids = <<>>
    /\ listed = <<>>
    /\ calls = <<>>
    /\ IdleRun

CallPriceConversion ==
    /\ calls = <<>>
    /\ calls' = <<[fn |-> "price_conversion", arg |-> price_in, raised |-> FALSE,
                   ret |-> price_conversion(price_in)]>>
    /\ UNCHANGED <<dataVars, price_in, runVars>>

NextPrice == CallPriceConversion

SpecPrice == InitPrice /\ [][NextPrice]_vars

\* ------------------------------------------------------------------ divide

Min(a, b) == IF a < b THEN a ELSE b

\* divide as it would be were only the full slices produced.
divide_full_only(lst, n) ==
    [k \in 1..(Len(lst) \div n) |-> SubSeq(lst, (k - 1) * n + 1, k * n)]

\* list(divide(lst, n)): the slices lst[i: i + n] for i = 0, n, 2n, ... < len(lst).
divide(lst, n) ==
    [k \in 1..((Len(lst) + n - 1) \div n) |->
        SubSeq(lst, (k - 1) * n + 1, Min(k * n, Len(lst)))]

\* ------------------------------------------------------------- the main()s

\* Rows of the feeds the runs download.
RunRows == {Row(PyS(<<"A">>), PyI(7), PriceExample),
            Row(PyS(<<"A">>), PyS(<<"x">>), PriceExample),
            Row(PyS(<<"A">>), PyF(25), PriceExample),
            Row(PyI(7), PyS(<<">", "1", "0">>), PriceExample),
            Row(PyI(7), PyS(<<"-", "5">>), PriceNoDigits)}

RunFeeds == AllSeqs(RunRows, MaxFeed)

\* What an external call does: it returns, or it raises one of the errors
\* that requests raises.
Outcomes == {"ok", "ReadTimeout", "ConnectionError", "HTTPError"}

\* Which except clause of main() takes an error, and what it prints.
Handler(error) ==
    IF error = "ReadTimeout" THEN "timeout"
    ELSE IF error = "ConnectionError" THEN "connection"
    ELSE "ERROR_2"

\* An exception raised inside the try block: an except clause prints, and
\* main() returns.
Except(error) ==
    /\ reported' = Append(reported, [handler |-> Handler(error), error |-> error])
    /\ pc' = "handled"

\* The coroutine functions, each run by a caller that awaits it.
SellerUploads == {"seller.upload_prices", "seller.upload_stocks"}
MarketUploads == {"market.upload_prices", "market.upload_stocks"}
Uploads == SellerUploads \cup MarketUploads

\* A main() starts with nothing read; an awaited coroutine function starts
\* with the feed and the campaign it was given.
InitRun ==
    /\ prog \in {"seller", "market"} \cup Uploads
    /\ IF prog \in Uploads
       THEN /\ pc = "get_offer_ids"
            /\ watch_remnants \in RunFeeds
            /\ IF prog \in SellerUploads
               THEN campaign = "ozon"
               ELSE campaign \in {"FBS", "DBS"}
       ELSE /\ pc = "env"
            /\ campaign = "none"
            /\ watch_remnants = <<>>
    /\ offer_ids = <<>>
    /\ listed = <<>>
    /\ calls = <<>>
    /\ price_in = <<>>
    /\ stocks = <<>>
    /\ prices = <<>>
    /\ todo = <<>>
    /\ sent = <<>>
    /\ coroutines = 0
    /\ reported = <<>>

\* seller.py main, lines 408-410: the environment is read before the try.
SellerEnv ==
    /\ prog = "seller" /\ pc = "env"
    /\ \E ok \in BOOLEAN :
           pc' = IF ok THEN "get_offer_ids" ELSE "crashed"
    /\ campaign' = "ozon"
    /\ UNCHANGED <<dataVars, calls, price_in, prog, stocks, prices, todo, sent,
                   coroutines, reported>>

\* seller.py main, line 412.
SellerGetOfferIds ==
    /\ prog = "seller" /\ pc = "get_offer_ids"
    /\ \E o \in Outcomes :
           IF o = "ok"
           THEN /\ \E u \in OfferLists : offer_ids' = u /\ listed' = u
                /\ pc' = "download_stock"
                /\ UNCHANGED reported
           ELSE /\ Except(o)
                /\ UNCHANGED <<offer_ids, listed>>
    /\ UNCHANGED <<watch_remnants, calls, price_in, prog, campaign, stocks, prices,
                   todo, sent, coroutines>>

\* seller.py main, line 413.
SellerDownloadStock ==
    /\ prog = "seller" /\ pc = "download_stock"
    /\ \E o \in Outcomes \cup {"OSError"} :
           IF o = "ok"
           THEN /\ watch_remnants' \in RunFeeds
                /\ pc' = "create_stocks"
                /\ UNCHANGED reported
           ELSE /\ Except(o)
                /\ UNCHANGED watch_remnants
    /\ UNCHANGED <<offer_ids, listed, calls, price_in, prog, campaign, stocks,
                   prices, todo, sent, coroutines>>

\* seller.py main, lines 414-415 up to the first iteration: create_stocks,
\* then list(divide(stocks, 100)).
SellerCreateStocks ==
    /\ prog = "seller" /\ pc = "create_stocks"
    /\ LET r == seller_create_stocks(watch_remnants, offer_ids)
       IN  /\ offer_ids' = r.offer_ids
           /\ IF r.raised
              THEN /\ Except("ValueError")
                   /\ UNCHANGED <<stocks, todo>>
              ELSE /\ stocks' = r.ret
                   /\ todo' = divide(r.ret, SellerStockChunk)
                   /\ pc' = "stocks_loop"
                   /\ UNCHANGED reported
    /\ UNCHANGED <<watch_remnants, listed, calls, price_in, prog, campaign, prices,
                   sent, coroutines>>

\* SellerStocksLoop as it would be were a failed batch reported and the loop
\* carried on with the next one.
SellerStocksLoopCarryOn ==
    /\ prog = "seller" /\ pc = "stocks_loop"
    /\ IF todo # <<>>
       THEN \E o \in Outcomes :
                IF o = "ok"
                THEN /\ sent' = Append(sent, [kind |-> "stocks", campaign |-> campaign,
                                              batch |-> Head(todo)])
                     /\ todo' = Tail(todo)
                     /\ UNCHANGED <<pc, reported>>
                ELSE /\ reported' = Append(reported, [handler |-> Handler(o),
                                                      error |-> o])
                     /\ todo' = Tail(todo)
                     /\ UNCHANGED <<pc, sent>>
       ELSE /\ pc' = "create_prices"
            /\ UNCHANGED <<sent, todo, reported>>
    /\ UNCHANGED <<dataVars, calls, price_in, prog, campaign, stocks, prices,
                   coroutines>>

\* seller.py main, lines 415-416: one iteration of the loop, or its end.
SellerStocksLoop ==
    /\ prog = "seller" /\ pc = "stocks_loop"
    /\ IF todo # <<>>
       THEN \E o \in Outcomes :
                IF o = "ok"
                THEN /\ sent' = Append(sent, [kind |-> "stocks", campaign |-> campaign,
                                              batch |-> Head(todo)])
                     /\ todo' = Tail(todo)
                     /\ UNCHANGED <<pc, reported>>
                ELSE /\ Except(o)
                     /\ UNCHANGED <<sent, todo>>
       ELSE /\ pc' = "create_prices"
            /\ UNCHANGED <<sent, todo, reported>>
    /\ UNCHANGED <<dataVars, calls, price_in, prog, campaign, stocks, prices,
                   coroutines>>

\* seller.py main, lines 417-418 up to the first iteration: create_prices on
\* the list create_stocks was given, then list(divide(prices, 900)).
SellerCreatePrices ==
    /\ prog = "seller" /\ pc = "create_prices"
    /\ prices' = seller_create_prices(watch_remnants, offer_ids)
    /\ todo' = divide(prices', SellerPriceChunk)
    /\ pc' = "prices_loop"
    /\ UNCHANGED <<dataVars, calls, price_in, prog, campaign, stocks, sent,
                   coroutines, reported>>

\* seller.py main, lines 418-419: one iteration of the loop, or its end and
\* with it the end of the try block.
SellerPricesLoop ==
    /\ prog = "seller" /\ pc = "prices_loop"
    /\ IF todo # <<>>
       THEN \E o \in Outcomes :
                IF o = "ok"
                THEN /\ sent' = Append(sent, [kind |-> "prices", campaign |-> campaign,
                                              batch |-> Head(todo)])
                     /\ todo' = Tail(todo)
                     /\ UNCHANGED <<pc, reported>>
                ELSE /\ Except(o)
                     /\ UNCHANGED <<sent, todo>>
       ELSE /\ pc' = "finished"
            /\ UNCHANGED <<sent, todo, reported>>
    /\ UNCHANGED <<dataVars, calls, price_in, prog, campaign, stocks, prices,
                   coroutines>>

\* The warehouse of a campaign (WAREHOUSE_FBS_ID, WAREHOUSE_DBS_ID).
Warehouse(c) == IF c = "FBS" THEN "WH_FBS" ELSE "WH_DBS"

\* market.py main, lines 352-357: the environment is read before the try.
MarketEnv ==
    /\ prog = "market" /\ pc = "env"
    /\ \E ok \in BOOLEAN :
           pc' = IF ok THEN "download_stock" ELSE "crashed"
    /\ UNCHANGED <<dataVars, calls, price_in, prog, campaign, stocks, prices, todo,
                   sent, coroutines, reported>>

\* market.py main, line 359: the feed is downloaded before the try.
MarketDownloadStock ==
    /\ prog = "market" /\ pc = "download_stock"
    /\ \E o \in Outcomes \cup {"OSError"} :
           IF o = "ok"
           THEN /\ watch_remnants' \in RunFeeds
                /\ pc' = "get_offer_ids"
                /\ campaign' = "FBS"
           ELSE /\ pc' = "crashed"
                /\ UNCHANGED <<watch_remnants, campaign>>
    /\ UNCHANGED <<offer_ids, listed, calls, price_in, prog, stocks, prices, todo,
                   sent, coroutines, reported>>

\* market.py main, lines 362 and 369.
MarketGetOfferIds ==
    /\ prog = "market" /\ pc = "get_offer_ids"
    /\ \E o \in Outcomes :
           IF o = "ok"
           THEN /\ \E u \in OfferLists : offer_ids' = u /\ listed' = u
                /\ pc' = "create_stocks"
                /\ UNCHANGED reported
           ELSE /\ Except(o)
                /\ UNCHANGED <<offer_ids, listed>>
    /\ UNCHANGED <<watch_remnants, calls, price_in, prog, campaign, stocks, prices,
                   todo, sent, coroutines>>

\* market.py main, lines 363-364 and 370-371 up to the first iteration.
MarketCreateStocks ==
    /\ prog = "market" /\ pc = "create_stocks"
    /\ LET r == market_create_stocks(watch_remnants, offer_ids,
                                     Warehouse(campaign), SomeDate)
       IN  /\ offer_ids' = r.offer_ids
           /\ IF r.raised
              THEN /\ Except("ValueError")
                   /\ UNCHANGED <<stocks, todo>>
              ELSE /\ stocks' = r.ret
                   /\ todo' = divide(r.ret, MarketStockChunk)
                   /\ pc' = "stocks_loop"
                   /\ UNCHANGED reported
    /\ UNCHANGED <<watch_remnants, listed, calls, price_in, prog, campaign, prices,
                   sent, coroutines>>

\* market.py main, lines 364-365 and 371-372: one iteration, or the loop's end.
MarketStocksLoop ==
    /\ prog = "market" /\ pc = "stocks_loop"
    /\ IF todo # <<>>
       THEN \E o \in Outcomes :
                IF o = "ok"
                THEN /\ sent' = Append(sent, [kind |-> "stocks", campaign |-> campaign,
                                              batch |-> Head(todo)])
                     /\ todo' = Tail(todo)
                     /\ UNCHANGED <<pc, reported>>
                ELSE /\ Except(o)
                     /\ UNCHANGED <<sent, todo>>
       ELSE /\ pc' = "upload_prices"
            /\ UNCHANGED <<sent, todo, reported>>
    /\ UNCHANGED <<dataVars, calls, price_in, prog, campaign, stocks, prices,
                   coroutines>>

\* market.py main, lines 366 and 373: upload_prices is an async def and the
\* call is not awaited, so it only makes a coroutine object: the body (lines
\* 298-302, the MarketUploadPrices... actions below) does not run in main, no
\* offer list is fetched and no price is sent.
\* After the FBS call main goes on to DBS; after the DBS call the try ends.
MarketUploadPrices ==
    /\ prog = "market" /\ pc = "upload_prices"
    /\ coroutines' = coroutines + 1
    /\ IF campaign = "FBS"
       THEN campaign' = "DBS" /\ pc' = "get_offer_ids"
       ELSE campaign' = campaign /\ pc' = "finished"
    /\ UNCHANGED <<dataVars, calls, price_in, prog, stocks, prices, todo, sent,
                   reported>>

\* ------------------------------------------- the coroutine functions, awaited

\* An exception in an awaited coroutine function: nothing in the function
\* catches it, so it goes to the caller.
Raise(error) ==
    /\ pc' = "raised"
    /\ calls' = Append(calls, [fn |-> prog, arg |-> watch_remnants,
                               raised |-> TRUE, ret |-> error])

\* The coroutine function returns value to the caller.
Return(value) ==
    /\ pc' = "returned"
    /\ calls' = Append(calls, [fn |-> prog, arg |-> watch_remnants,
                               raised |-> FALSE, ret |-> value])

\* seller.py upload_stocks, line 393: the entries whose stock is not 0.
seller_not_empty(lst) ==
    LET NotEmpty(stock) == stock.stock # 0
    IN  SelectSeq(lst, NotEmpty)

\* market.py upload_stocks, lines 335-337: the entries whose count is not 0.
market_not_empty(lst) ==
    LET NotEmpty(stock) == stock.items[1].count # 0
    IN  SelectSeq(lst, NotEmpty)

\* seller.py upload_prices, line 358.
SellerUploadPricesGetOfferIds ==
    /\ prog = "seller.upload_prices" /\ pc = "get_offer_ids"
    /\ \E o \in Outcomes :
           IF o = "ok"
           THEN /\ \E u \in OfferLists : offer_ids' = u /\ listed' = u
                /\ pc' = "create_prices"
                /\ UNCHANGED calls
           ELSE /\ Raise(o)
                /\ UNCHANGED <<offer_ids, listed>>
    /\ UNCHANGED <<watch_remnants, price_in, prog, campaign, stocks, prices, todo,
                   sent, coroutines, reported>>

\* seller.py upload_prices, lines 359-360 up to the first iteration:
\* create_prices, then list(divide(prices, 1000)).
SellerUploadPricesCreate ==
    /\ prog = "seller.upload_prices" /\ pc = "create_prices"
    /\ prices' = seller_create_prices(watch_remnants, offer_ids)
    /\ todo' = divide(prices', SellerUploadPriceChunk)
    /\ pc' = "prices_loop"
    /\ UNCHANGED <<dataVars, calls, price_in, prog, campaign, stocks, sent,
                   coroutines, reported>>

\* seller.py upload_prices, lines 360-362: one iteration of the loop, or its
\* end and the return of the price list.
SellerUploadPricesLoop ==
    /\ prog = "seller.upload_prices" /\ pc = "prices_loop"
    /\ IF todo # <<>>
       THEN \E o \in Outcomes :
                IF o = "ok"
                THEN /\ sent' = Append(sent, [kind |-> "prices", campaign |-> campaign,
                                              batch |-> Head(todo)])
                     /\ todo' = Tail(todo)
                     /\ UNCHANGED <<pc, calls>>
                ELSE /\ Raise(o)
                     /\ UNCHANGED <<sent, todo>>
       ELSE /\ Return(prices)
            /\ UNCHANGED <<sent, todo>>
    /\ UNCHANGED <<dataVars, price_in, prog, campaign, stocks, prices, coroutines,
                   reported>>

\* seller.py upload_stocks, line 389.
SellerUploadStocksGetOfferIds ==
    /\ prog = "seller.upload_stocks" /\ pc = "get_offer_ids"
    /\ \E o \in Outcomes :
           IF o = "ok"
           THEN /\ \E u \in OfferLists : offer_ids' = u /\ listed' = u
                /\ pc' = "create_stocks"
                /\ UNCHANGED calls
           ELSE /\ Raise(o)
                /\ UNCHANGED <<offer_ids, listed>>
    /\ UNCHANGED <<watch_remnants, price_in, prog, campaign, stocks, prices, todo,
                   sent, coroutines, reported>>

\* seller.py upload_stocks, lines 390-391 up to the first iteration:
\* create_stocks, then list(divide(stocks, 100)).
SellerUploadStocksCreate ==
    /\ prog = "seller.upload_stocks" /\ pc = "create_stocks"
    /\ LET r == seller_create_stocks(watch_remnants, offer_ids)
       IN  /\ offer_ids' = r.offer_ids
           /\ IF r.raised
              THEN /\ Raise("ValueError")
                   /\ UNCHANGED <<stocks, todo>>
              ELSE /\ stocks' = r.ret
                   /\ todo' = divide(r.ret, SellerStockChunk)
                   /\ pc' = "stocks_loop"
                   /\ UNCHANGED calls
    /\ UNCHANGED <<watch_remnants, listed, price_in, prog, campaign, prices, sent,
                   coroutines, reported>>

\* seller.py upload_stocks, lines 391-394: one iteration of the loop, or its
\* end and the return of (not_empty, stocks).
SellerUploadStocksLoop ==
    /\ prog = "seller.upload_stocks" /\ pc = "stocks_loop"
    /\ IF todo # <<>>
       THEN \E o \in Outcomes :
                IF o = "ok"
                THEN /\ sent' = Append(sent, [kind |-> "stocks", campaign |-> campaign,
                                              batch |-> Head(todo)])
                     /\ todo' = Tail(todo)
                     /\ UNCHANGED <<pc, calls>>
                ELSE /\ Raise(o)
                     /\ UNCHANGED <<sent, todo>>
       ELSE /\ Return(<<seller_not_empty(stocks), stocks>>)
            /\ UNCHANGED <<sent, todo>>
    /\ UNCHANGED <<dataVars, price_in, prog, campaign, stocks, prices, coroutines,
                   reported>>

\* market.py upload_prices, line 298.
MarketUploadPricesGetOfferIds ==
    /\ prog = "market.upload_prices" /\ pc = "get_offer_ids"
    /\ \E o \in Outcomes :
           IF o = "ok"
           THEN /\ \E u \in OfferLists : offer_ids' = u /\ listed' = u
                /\ pc' = "create_prices"
                /\ UNCHANGED calls
           ELSE /\ Raise(o)
                /\ UNCHANGED <<offer_ids, listed>>
    /\ UNCHANGED <<watch_remnants, price_in, prog, campaign, stocks, prices, todo,
                   sent, coroutines, reported>>

\* market.py upload_prices, lines 299-300 up to the first iteration:
\* create_prices, then list(divide(prices, 500)).
MarketUploadPricesCreate ==
    /\ prog = "market.upload_prices" /\ pc = "create_prices"
    /\ LET r == market_create_prices(watch_remnants, offer_ids)
       IN  IF r.raised
           THEN /\ Raise("ValueError")
                /\ UNCHANGED <<prices, todo>>
           ELSE /\ prices' = r.ret
                /\ todo' = divide(r.ret, MarketPriceChunk)
                /\ pc' = "prices_loop"
                /\ UNCHANGED calls
    /\ UNCHANGED <<dataVars, price_in, prog, campaign, stocks, sent, coroutines,
                   reported>>

\* market.py upload_prices, lines 300-302: one iteration of the loop, or its
\* end and the return of the price list.
MarketUploadPricesLoop ==
    /\ prog = "market.upload_prices" /\ pc = "prices_loop"
    /\ IF todo # <<>>
       THEN \E o \in Outcomes :
                IF o = "ok"
                THEN /\ sent' = Append(sent, [kind |-> "prices", campaign |-> campaign,
                                              batch |-> Head(todo)])
                     /\ todo' = Tail(todo)
                     /\ UNCHANGED <<pc, calls>>
                ELSE /\ Raise(o)
                     /\ UNCHANGED <<sent, todo>>
       ELSE /\ Return(prices)
            /\ UNCHANGED <<sent, todo>>
    /\ UNCHANGED <<dataVars, price_in, prog, campaign, stocks, prices, coroutines,
                   reported>>

\* market.py upload_stocks, line 331.
MarketUploadStocksGetOfferIds ==
    /\ prog = "market.upload_stocks" /\ pc = "get_offer_ids"
    /\ \E o \in Outcomes :
           IF o = "ok"
           THEN /\ \E u \in OfferLists : offer_ids' = u /\ listed' = u
                /\ pc' = "create_stocks"
                /\ UNCHANGED calls
           ELSE /\ Raise(o)
                /\ UNCHANGED <<offer_ids, listed>>
    /\ UNCHANGED <<watch_remnants, price_in, prog, campaign, stocks, prices, todo,
                   sent, coroutines, reported>>

\* market.py upload_stocks, lines 332-333 up to the first iteration:
\* create_stocks for the warehouse given, then list(divide(stocks, 2000)).
MarketUploadStocksCreate ==
    /\ prog = "market.upload_stocks" /\ pc = "create_stocks"
    /\ LET r == market_create_stocks(watch_remnants, offer_ids,
                                     Warehouse(campaign), SomeDate)
       IN  /\ offer_ids' = r.offer_ids
           /\ IF r.raised
              THEN /\ Raise("ValueError")
                   /\ UNCHANGED <<stocks, todo>>
              ELSE /\ stocks' = r.ret
                   /\ todo' = divide(r.ret, MarketStockChunk)
                   /\ pc' = "stocks_loop"
                   /\ UNCHANGED calls
    /\ UNCHANGED <<watch_remnants, listed, price_in, prog, campaign, prices, sent,
                   coroutines, reported>>

\* market.py upload_stocks, lines 333-338: one iteration of the loop, or its
\* end and the return of (not_empty, stocks).
MarketUploadStocksLoop ==
    /\ prog = "market.upload_stocks" /\ pc = "stocks_loop"
    /\ IF todo # <<>>
       THEN \E o \in Outcomes :
                IF o = "ok"
                THEN /\ sent' = Append(sent, [kind |-> "stocks", campaign |-> campaign,
                                              batch |-> Head(todo)])
                     /\ todo' = Tail(todo)
                     /\ UNCHANGED <<pc, calls>>
                ELSE /\ Raise(o)
                     /\ UNCHANGED <<sent, todo>>
       ELSE /\ Return(<<market_not_empty(stocks), stocks>>)
            /\ UNCHANGED <<sent, todo>>
    /\ UNCHANGED <<dataVars, price_in, prog, campaign, stocks, prices, coroutines,
                   reported>>

Next ==
    \/ SellerEnv
    \/ SellerGetOfferIds
    \/ SellerDownloadStock
    \/ SellerCreateStocks
    \/ SellerStocksLoop
    \/ SellerCreatePrices
    \/ SellerPricesLoop
    \/ MarketEnv
    \/ MarketDownloadStock
    \/ MarketGetOfferIds
    \/ MarketCreateStocks
    \/ MarketStocksLoop
    \/ MarketUploadPrices
    \/ SellerUploadPricesGetOfferIds
    \/ SellerUploadPricesCreate
    \/ SellerUploadPricesLoop
    \/ SellerUploadStocksGetOfferIds
    \/ SellerUploadStocksCreate
    \/ SellerUploadStocksLoop
    \/ MarketUploadPricesGetOfferIds
    \/ MarketUploadPricesCreate
    \/ MarketUploadPricesLoop
    \/ MarketUploadStocksGetOfferIds
    \/ MarketUploadStocksCreate
    \/ MarketUploadStocksLoop

Spec == InitRun /\ [][Next]_vars

\* --------------------------------------------------- divide called directly

\* Elements of the lists given to divide.
Items == {"a", "b"}

InitDivide ==
    /\ stocks \in AllSeqs(Items, MaxListLen)
    /\ watch_remnants = <<>>
    /\ offer_ids = <<>>
    /\ listed = <<>>
    /\ calls = <<>>
    /\ price_in = <<>>
    /\ prog = "none"
    /\ pc = "idle"
    /\ campaign = "none"
    /\ prices = <<>>
    /\ todo = <<>>
    /\ sent = <<>>
    /\ coroutines = 0
    /\ reported = <<>>

\* list(divide(stocks, n)) for a chunk size n >= 1; the slices are new lists,
\* the list given is only read.
CallDivide ==
    /\ calls = <<>>
    /\ \E n \in 1..MaxChunk :
           /\ todo' = divide(stocks, n)
           /\ calls' = <<[fn |-> "divide", arg |-> [lst |-> stocks, n |-> n],
                          raised |-> FALSE, ret |-> todo']>>
    /\ UNCHANGED <<dataVars, price_in, prog, pc, campaign, stocks, prices, sent,
                   coroutines, reported>>

NextDivide == CallDivide

SpecDivide == InitDivide /\ [][NextDivide]_vars

\* ======================================================== properties
\* What the properties read off a call or a feed.

StockFns == {"seller.create_stocks", "market.create_stocks"}
PriceFns == {"seller.create_prices", "market.create_prices"}

Range(s) == {s[i] : i \in 1..Len(s)}

\* The offer identifier and the quantity of an entry a function returned.
EntryId(fn, e) ==
    IF fn = "market.create_stocks" THEN e.sku
    ELSE IF fn = "market.create_prices" THEN e.id
    ELSE e.offer_id

EntryQty(fn, e) == IF fn = "market.create_stocks" THEN e.items[1].count ELSE e.stock

\* The calls of create_stocks that returned.
ReturnedStockCalls ==
    {c \in 1..Len(calls) : calls[c].fn \in StockFns /\ ~calls[c].raised}

CodeOf(S, i) == PyStr(S[i].Kod)

\* Rows of S whose code is in U.
InUniverse(S, U) == {i \in 1..Len(S) : CodeOf(S, i) \in Range(U)}

\* Of these, the first row of each code.
FirstRows(S, U) ==
    {i \in InUniverse(S, U) : \A j \in 1..(i - 1) : CodeOf(S, j) # CodeOf(S, i)}

\* The k-th element of a set of row numbers, in feed order.
Nth(rows, k) == CHOOSE i \in rows : Cardinality({j \in rows : j <= i}) = k

\* The identifiers of U that no row of S carries, in the order of U.
Unmatched(S, U) ==
    LET Absent(u) == \A i \in 1..Len(S) : CodeOf(S, i) # u
    IN  SelectSeq(U, Absent)

\* An offer universe is a set: a list that holds no identifier twice.
NoDuplicates(lst) ==
    \A i \in 1..Len(lst) : \A j \in 1..Len(lst) : lst[i] = lst[j] => i = j

\* How many times x is in lst.
Occurrences(lst, x) == Cardinality({k \in 1..Len(lst) : lst[k] = x})

\* The rows of S whose code is in the working list when the loop of
\* create_stocks comes to them: each earlier row of the same code has taken
\* one occurrence of the code out of U.
MatchingRows(S, U) ==
    {i \in 1..Len(S) :
        Cardinality({j \in 1..(i - 1) : CodeOf(S, j) = CodeOf(S, i)})
            < Occurrences(U, CodeOf(S, i))}

\* The quantity token of a cell is its string form.
Token(v) == PyStr(v)

IsSentinel(v) == Token(v) = <<">", "1", "0">> \/ Token(v) = <<"1">>

\* The token parsed as a base-10 integer: [raised, n].
ParseToken(v) == PyInt(PyS(Token(v)))

\* A quantity token that is neither a sentinel nor integer-parseable.
Malformed(v) == ~IsSentinel(v) /\ ParseToken(v).raised

\* A quantity cell that is no sentinel and that int() does not take: text
\* that is no integer literal, or NaN.
Rejected(v) == ~IsSentinel(v) /\ PyInt(v).raised

\* ------------------------------------------------------------------ C1
\* C1: a create_stocks call (either variant) that is given an offer universe,
\* a list that holds each identifier once, and that returns yields as many
\* entries as the universe holds, the identifiers of the entries are exactly
\* those of the universe, and no identifier is in two entries.
C1_StocksCoverUniverse ==
    \A c \in ReturnedStockCalls :
        LET fn == calls[c].fn
            U == calls[c].arg
            ret == calls[c].ret
        IN  NoDuplicates(U) =>
                /\ Len(ret) = Len(U)
                /\ {EntryId(fn, ret[k]) : k \in 1..Len(ret)} = Range(U)
                /\ \A j, k \in 1..Len(ret) :
                       EntryId(fn, ret[j]) = EntryId(fn, ret[k]) => j = k

\* A returned call on a list of two offers, one matched by two rows of the
\* feed and one in no row.
C1_Witness ==
    \E c \in ReturnedStockCalls :
        /\ Len(calls[c].arg) = 2
        /\ NoDuplicates(calls[c].arg)
        /\ Len(watch_remnants) = 2
        /\ InUniverse(watch_remnants, calls[c].arg) = {1, 2}
        /\ CodeOf(watch_remnants, 1) = CodeOf(watch_remnants, 2)
        /\ Unmatched(watch_remnants, calls[c].arg) # <<>>
        /\ Len(calls[c].ret) = 2

\* ------------------------------------------------------------------ C2
\* C2: for an offer universe (a list that holds each identifier once) the
\* entries come in this order: one per matched code, in feed order, with the
\* quantity create_stocks gives the first row of that code (which quantity
\* that is, is the matter of C9); then one with quantity 0 per offer that no
\* row matched, in the order of the offer list.
C2_StocksOrder ==
    \A c \in ReturnedStockCalls :
        LET fn == calls[c].fn
            S == watch_remnants
            U == calls[c].arg
            ret == calls[c].ret
            firsts == FirstRows(S, U)
            m == Cardinality(firsts)
            rest == Unmatched(S, U)
        IN  NoDuplicates(U) =>
                /\ Len(ret) = m + Len(rest)
                /\ \A k \in 1..Len(ret) :
                       IF k <= m
                       THEN /\ EntryId(fn, ret[k]) = CodeOf(S, Nth(firsts, k))
                            /\ EntryQty(fn, ret[k])
                                   = normalize_count(S[Nth(firsts, k)]).stock
                       ELSE /\ EntryId(fn, ret[k]) = rest[k - m]
                            /\ EntryQty(fn, ret[k]) = 0

\* Two rows of one code with different quantities, then an offer in no row:
\* the first row's quantity is in the first entry, the second entry is zero.
C2_Witness ==
    \E c \in ReturnedStockCalls :
        /\ Len(watch_remnants) = 2
        /\ FirstRows(watch_remnants, calls[c].arg) = {1}
        /\ InUniverse(watch_remnants, calls[c].arg) = {1, 2}
        /\ normalize_count(watch_remnants[1]).stock = 7
        /\ normalize_count(watch_remnants[2]).stock = 100
        /\ Len(calls[c].arg) = 2
        /\ calls[c].arg[1] = <<"B">>
        /\ EntryQty(calls[c].fn, calls[c].ret[1]) = 7
        /\ EntryId(calls[c].fn, calls[c].ret[2]) = <<"B">>

\* ------------------------------------------------------------------ C3
\* The entries of a create_prices call are, in feed order, one per row whose
\* code is in the offer list, duplicate rows included.
PricesFollowFeed(c) ==
    LET S == watch_remnants
        U == calls[c].arg
        ret == calls[c].ret
        rows == InUniverse(S, U)
    IN  /\ ~calls[c].raised
        /\ Len(ret) = Cardinality(rows)
        /\ Len(ret) <= Len(S)
        /\ \A k \in 1..Len(ret) :
               EntryId(calls[c].fn, ret[k]) = CodeOf(S, Nth(rows, k))

\* A price with no digit before its first ".".
NoDigitBeforeDot(price) ==
    \A i \in 1..Len(price) :
        IsDigit(price[i]) => \E j \in 1..(i - 1) : price[j] = "."

\* C3 as stated: every create_prices call (either variant) returns one entry
\* per row whose code is in the offer list, in feed order, duplicates
\* included, at most as many as rows, and leaves the offer list as it was.
C3_PricesFollowFeedAlways ==
    \A c \in 1..Len(calls) :
        calls[c].fn \in PriceFns => PricesFollowFeed(c) /\ offer_ids = calls[c].arg

\* C3 amended: that holds of seller.py create_prices always, and of market.py
\* create_prices when every row whose code is in the offer list has a digit
\* before the first "." of its price; otherwise market.py create_prices raises
\* and returns nothing.  The offer list is left as it was in every case.
C3_PricesFollowFeed ==
    \A c \in 1..Len(calls) :
        calls[c].fn \in PriceFns =>
            /\ offer_ids = calls[c].arg
            /\ IF /\ calls[c].fn = "market.create_prices"
                  /\ \E i \in InUniverse(watch_remnants, calls[c].arg) :
                         NoDigitBeforeDot(watch_remnants[i].Tsena)
               THEN calls[c].raised /\ calls[c].ret = <<>>
               ELSE PricesFollowFeed(c)

\* market.py create_prices returned two entries for two rows of one code,
\* and none for an offer that is in no row.
C3_Witness ==
    \E c \in 1..Len(calls) :
        /\ calls[c].fn = "market.create_prices"
        /\ ~calls[c].raised
        /\ Len(calls[c].ret) = 2
        /\ calls[c].ret[1].id = calls[c].ret[2].id
        /\ Unmatched(watch_remnants, calls[c].arg) # <<>>

\* ------------------------------------------------------------------ C5
\* C5 as stated: after a create_stocks call the caller's offer list holds the
\* identifiers it held before the call, in the same order.
C5_CallerListUntouched ==
    \A c \in 1..Len(calls) :
        (c = Len(calls) /\ calls[c].fn \in StockFns) => offer_ids = calls[c].arg

\* ------------------------------------------------------------------ C6
\* C6 as stated: a second call of the same function with the same feed and
\* offer list arguments returns what the first call returned.
C6_SecondCallSameOutput ==
    Len(calls) >= 2 =>
        /\ calls[2].raised = calls[1].raised
        /\ calls[2].ret = calls[1].ret

\* ------------------------------------------------------------------ C8
\* C8 as stated: every entry of a create_stocks call that returns has a
\* quantity of at least 0.
C8_QuantitiesNonNegative ==
    \A c \in ReturnedStockCalls :
        \A k \in 1..Len(calls[c].ret) : EntryQty(calls[c].fn, calls[c].ret[k]) >= 0

\* ------------------------------------------------------------------ C9
\* C9 as stated: in either variant the quantity of a row that create_stocks
\* matched is 100 when the token (the string form of the cell) is ">10", else
\* 0 when it is "1", else the value of the token parsed as a base-10 integer.
C9_QuantityRules ==
    \A c \in ReturnedStockCalls :
        LET S == watch_remnants
            rows == MatchingRows(S, calls[c].arg)
        IN  \A k \in 1..Cardinality(rows) :
                LET cell == S[Nth(rows, k)].Kolichestvo
                    qty == EntryQty(calls[c].fn, calls[c].ret[k])
                IN  IF Token(cell) = <<">", "1", "0">> THEN qty = 100
                    ELSE IF Token(cell) = <<"1">> THEN qty = 0
                    ELSE ~ParseToken(cell).raised /\ qty = ParseToken(cell).n

\* ------------------------------------------------------------------ C10
\* C10: price_conversion never raises, and returns the digits 0-9, in order,
\* of the part of its argument before the first "." (all of it when there is
\* none): "5'990.00 rub." gives "5990", "1234.50" gives "1234", "" gives "".
C10_PriceDigitsBeforeDot ==
    \A c \in 1..Len(calls) :
        calls[c].fn = "price_conversion" =>
            LET s == calls[c].arg
                dots == {i \in 1..Len(s) : s[i] = "."}
                cut == IF dots = {} THEN Len(s) + 1
                       ELSE CHOOSE i \in dots : \A j \in dots : i <= j
            IN  /\ ~calls[c].raised
                /\ calls[c].ret = SelectSeq(SubSeq(s, 1, cut - 1), IsDigit)
                /\ s = PriceExample => calls[c].ret = <<"5", "9", "9", "0">>
                /\ s = <<"1", "2", "3", "4", ".", "5", "0">>
                       => calls[c].ret = <<"1", "2", "3", "4">>
                /\ s = <<>> => calls[c].ret = <<>>

\* price_conversion was applied to "5'990.00 rub.", which has two dots, digits
\* after the first of them and other characters before it.
C10_Witness ==
    /\ calls # <<>>
    /\ calls[1].fn = "price_conversion"
    /\ calls[1].arg = PriceExample
    /\ calls[1].ret = <<"5", "9", "9", "0">>

\* ------------------------------------------------------------------ C4
\* A synchronisation (the Ozon run, or one campaign of the Yandex Market run)
\* has gone through all its steps without a failure.
SyncDone ==
    \/ pc = "finished"
    \/ prog = "market" /\ campaign = "DBS" /\ pc = "get_offer_ids"

DoneCampaign == IF pc = "finished" THEN campaign ELSE "FBS"

\* The requests a marketplace received for a campaign, in order.
SentOf(c) ==
    LET Of(r) == r.campaign = c
    IN  SelectSeq(sent, Of)

Requests(kind, c, batches) ==
    [k \in 1..Len(batches) |-> [kind |-> kind, campaign |-> c, batch |-> batches[k]]]

\* C4 as stated: when a synchronisation is through without a failure, the
\* marketplace has received every stock batch and, after them, every price
\* batch of the reconciled price list, and nothing else.  For Ozon the price
\* list is the one main() built; for Yandex Market it is the one
\* upload_prices builds from the feed and the campaign's offer list.
C4_StocksThenPricesPushed ==
    SyncDone =>
        IF prog = "seller"
        THEN SentOf(campaign) =
                 Requests("stocks", campaign, divide(stocks, SellerStockChunk))
                     \o Requests("prices", campaign, divide(prices, SellerPriceChunk))
        ELSE LET p == market_create_prices(watch_remnants, listed)
             IN  ~p.raised =>
                     SentOf(DoneCampaign) =
                         Requests("stocks", DoneCampaign,
                                  divide(stocks, MarketStockChunk))
                             \o Requests("prices", DoneCampaign,
                                         divide(p.ret, MarketPriceChunk))

\* ------------------------------------------------------------------ C7
\* The synchronisation is past create_stocks.
AfterReconcile ==
    pc \in {"stocks_loop", "create_prices", "prices_loop", "upload_prices", "finished"}

StockSent(c) == \E i \in 1..Len(sent) : sent[i].kind = "stocks" /\ sent[i].campaign = c

\* C7 as stated: with a malformed quantity cell anywhere in the feed, stock
\* reconciliation does not return and the run pushes no stock batch.
C7_AnyMalformedAborts ==
    (\E i \in 1..Len(watch_remnants) : Malformed(watch_remnants[i].Kolichestvo))
        => ~AfterReconcile /\ \A i \in 1..Len(sent) : sent[i].kind # "stocks"

\* Stock reconciliation of the running synchronisation raised ValueError.
ReconcileFailed ==
    \/ /\ pc = "handled"
       /\ reported # <<>>
       /\ reported[Len(reported)].error = "ValueError"
    \/ /\ pc = "raised"
       /\ calls # <<>>
       /\ calls[Len(calls)].ret = "ValueError"

\* A row that create_stocks matches against the offer list of the running
\* synchronisation holds a quantity cell that int() does not take.
MatchedRejected ==
    \E i \in MatchingRows(watch_remnants, listed) :
        Rejected(watch_remnants[i].Kolichestvo)

\* C7 amended: in a synchronisation that reconciles stocks (a main(), or an
\* awaited upload_stocks), create_stocks raises exactly when a row it matches
\* (its code is in the working offer list when the loop comes to it) holds a
\* quantity cell that is no sentinel and that int() does not take.  Then the
\* synchronisation is either about to call create_stocks or has ended on the
\* ValueError, in an except clause of main or with the exception given to
\* the caller of upload_stocks, and no stock batch of it has been pushed.
\* In every other case, a float cell (cut to its whole part) and a cell of an
\* unmatched row (never read) included, create_stocks does not raise.
C7_MatchedMalformedAborts ==
    prog \notin {"seller.upload_prices", "market.upload_prices"} =>
        /\ MatchedRejected =>
               /\ pc \in {"create_stocks", "handled", "raised"}
               /\ pc = "handled" => reported # <<>>
               /\ pc = "raised" => calls # <<>> /\ calls[1].raised
               /\ ~StockSent(campaign)
        /\ ReconcileFailed => MatchedRejected

\* The DBS reconciliation of a Yandex Market run raised ValueError on a
\* matched malformed cell after the FBS stock batches had been pushed.
C7_Witness ==
    /\ prog = "market" /\ campaign = "DBS" /\ pc = "handled"
    /\ reported = <<[handler |-> "ERROR_2", error |-> "ValueError"]>>
    /\ MatchedRejected
    /\ StockSent("FBS")
    /\ ~StockSent("DBS")

\* A float cell on a matched row did not stop a run: its stock batches were
\* pushed, with a text cell that is no numeral on a row that was not matched.
FloatCellPassed ==
    /\ prog = "seller" /\ pc = "finished"
    /\ \E i \in MatchingRows(watch_remnants, listed) :
           watch_remnants[i].Kolichestvo = PyF(25)
    /\ \E i \in 1..Len(watch_remnants) :
           /\ i \notin MatchingRows(watch_remnants, listed)
           /\ Rejected(watch_remnants[i].Kolichestvo)
    /\ StockSent(campaign)


\* ------------------------------------------------------------------ C11
\* The chunks put back together.
RECURSIVE Flatten(_)
Flatten(chunks) ==
    IF chunks = <<>> THEN <<>> ELSE Head(chunks) \o Flatten(Tail(chunks))

\* C11: the chunks of divide(L, n), n >= 1, put together in order are L;
\* every chunk but the last has exactly n elements, the last has 1 to n; an
\* empty L gives no chunk at all; and L is as it was.
C11_DivideChunks ==
    \A c \in 1..Len(calls) :
        calls[c].fn = "divide" =>
            LET L == calls[c].arg.lst
                n == calls[c].arg.n
                ret == calls[c].ret
            IN  /\ Flatten(ret) = L
                /\ \A k \in 1..(Len(ret) - 1) : Len(ret[k]) = n
                /\ ret # <<>> => Len(ret[Len(ret)]) \in 1..n
                /\ L = <<>> => ret = <<>>
                /\ stocks = L

\* divide cut a list of five into chunks of two, two and one.
C11_Witness ==
    /\ calls # <<>>
    /\ calls[1].fn = "divide"
    /\ Len(calls[1].arg.lst) = 5
    /\ calls[1].arg.n = 2
    /\ Len(calls[1].ret) = 3
    /\ Len(calls[1].ret[3]) = 1

\* ------------------------------------------------------------------ C12
\* The list a push loop sends, its batch size and the kind of its requests.
LoopKind == IF pc = "prices_loop" THEN "prices" ELSE "stocks"

StockChunkOf ==
    IF prog \in {"seller", "seller.upload_stocks"}
    THEN SellerStockChunk
    ELSE MarketStockChunk

PriceChunkOf ==
    IF prog = "seller" THEN SellerPriceChunk
    ELSE IF prog = "seller.upload_prices" THEN SellerUploadPriceChunk
    ELSE MarketPriceChunk

\* The step is one in which a call failed: an except clause of main printed,
\* or an awaited coroutine function raised to its caller.
FailedStep == reported' # reported \/ (pc' = "raised" /\ pc # "raised")

\* The run has ended on a failure.
Stopped == pc \in {"handled", "raised"}

\* Everything the running synchronisation is to have pushed once the loop it
\* is in has sent all its batches.
DueByLoop ==
    Requests("stocks", campaign, divide(stocks, StockChunkOf))
        \o (IF pc = "prices_loop"
            THEN Requests("prices", campaign, divide(prices, PriceChunkOf))
            ELSE <<>>)

\* C12: a step in which a call fails ends the run (in an except clause of
\* main, or with the exception given to the caller of an awaited upload
\* function) and sends nothing; when the call is the push of a batch, the
\* batches before it are with the marketplace, in order and once each, and
\* that batch and the later ones are not; and once the run has ended there,
\* nothing is sent any more (no retry, no compensating request, no later
\* stock or price batch).
C12_FailedPushStopsRun ==
    [][/\ FailedStep =>
              /\ pc' = (IF prog \in Uploads THEN "raised" ELSE "handled")
              /\ sent' = sent
              /\ pc \in {"stocks_loop", "prices_loop"} =>
                     /\ todo # <<>>
                     /\ todo' = todo
                     /\ SentOf(campaign) \o Requests(LoopKind, campaign, todo)
                            = DueByLoop
       /\ Stopped => sent' = sent /\ pc' = pc
      ]_vars

\* The push of the second stock batch of a run failed with a transport error
\* after the first was pushed.
C12_Witness ==
    /\ pc = "handled"
    /\ Len(reported) = 1
    /\ reported[1].error \in {"ReadTimeout", "ConnectionError", "HTTPError"}
    /\ Len(todo) = 1
    /\ Len(stocks) = 2
    /\ SentOf(campaign) = Requests("stocks", campaign, <<<<stocks[1]>>>>)
    /\ todo = <<<<stocks[2]>>>>

\* ------------------------------------------------------------------ C13
\* C13 as stated: whatever step of a run fails, the failure is caught by an
\* except clause of main, so that no exception leaves main.
C13_NoFailureLeavesMain == pc # "crashed"

\* ------------------------------------------------------------------ C14
\* The price entries the marketplace received for a campaign, in order.
PricesPushed(c) ==
    LET Of(r) == r.campaign = c /\ r.kind = "prices"
        batches == SelectSeq(sent, Of)
    IN  Flatten([k \in 1..Len(batches) |-> batches[k].batch])

\* C14 as stated: when an Ozon run ends with no step failed, the price
\* entries pushed are, in feed order, one per supplier row whose code is in
\* the offer list fetched at the start of the run.
C14_OzonPricesCoverFetchedOffers ==
    (prog = "seller" /\ pc = "finished") =>
        LET rows == InUniverse(watch_remnants, listed)
            pushed == PricesPushed(campaign)
        IN  /\ Len(pushed) = Cardinality(rows)
            /\ \A k \in 1..Len(pushed) :
                   pushed[k].offer_id = CodeOf(watch_remnants, Nth(rows, k))

\* ------------------------------------------------------------------ C15
\* C15 as stated: the Yandex Market run does not end before the DBS
\* synchronisation has been started, whatever failed in the FBS one.
C15_DbsRunsAfterFbsFailure ==
    (prog = "market" /\ pc \in {"handled", "finished"}) => campaign = "DBS"

====
